---------------------------- MODULE Spec2Model ----------------------------
(***************************************************************************)
(* State-machine model of the WebGIS service in src/main.py: the spatial   *)
(* store (tables), the asyncpg connections left open by finished requests, *)
(* the scratch storage of the export handler, the file response a handler  *)
(* has returned but the framework has not streamed yet, and the response   *)
(* of the last finished request.                                           *)
(*                                                                         *)
(* Names (file names, table names) are sequences of one-character strings, *)
(* so that lower(), replace(), endswith(), startswith(), splitext() and    *)
(* the f-string of the derived table name are computed, not assumed.       *)
(* A geometry is the sequence <<shape, d1, d2, ...>>: a source shape and   *)
(* the buffer distances (in tenths of a metre) applied to it; its          *)
(* coordinate reference system is the table's srid.                        *)
(***************************************************************************)
EXTENDS Integers, Sequences, FiniteSets, TLC

VARIABLES tables, open, scratch, outbox, resp

vars == <<tables, open, scratch, outbox, resp>>

---------------------------------------------------------------------------
(* Bounds of the model *)

\* finished requests may leave at most this many connections open
MaxLeaked == 1

\* the large datasets hold RowCap + Extra rows
Extra == 1

(* Program constants *)

\* LIMIT 100 of get_layer_attributes
RowCap == 100

\* epsg=4326 of upload_shapefile, ST_Transform(..., 4326) of run_buffer_analysis
WGS84 == 4326

\* a dataset without a coordinate reference system (gdf.crs is None)
NoCrs == 0

\* a projected reference system other than the global standard
WebMercator == 3857

---------------------------------------------------------------------------
(* Strings as sequences of characters *)

UpperAlpha ==
    << "A","B","C","D","E","F","G","H","I","J","K","L","M",
       "N","O","P","Q","R","S","T","U","V","W","X","Y","Z" >>

LowerAlpha ==
    << "a","b","c","d","e","f","g","h","i","j","k","l","m",
       "n","o","p","q","r","s","t","u","v","w","x","y","z" >>

\* str.lower() on one character
LowerChar(c) ==
    IF \E i \in 1..26 : UpperAlpha[i] = c
    THEN LowerAlpha[CHOOSE i \in 1..26 : UpperAlpha[i] = c]
    ELSE c

\* str.lower()
StrLower(s) == [i \in 1..Len(s) |-> LowerChar(s[i])]

\* str.replace(old, new) for a one-character old and new
StrReplace(s, old, new) == [i \in 1..Len(s) |-> IF s[i] = old THEN new ELSE s[i]]

\* str.endswith(suffix)
EndsWith(s, suffix) ==
    /\ Len(suffix) <= Len(s)
    /\ SubSeq(s, Len(s) - Len(suffix) + 1, Len(s)) = suffix

\* str.startswith(prefix)
StartsWith(s, prefix) ==
    /\ Len(prefix) <= Len(s)
    /\ SubSeq(s, 1, Len(prefix)) = prefix

\* the last index of character c in s, 0 when there is none (str.rfind + 1)
RFind(s, c) ==
    IF \E i \in 1..Len(s) : s[i] = c
    THEN CHOOSE i \in 1..Len(s) : s[i] = c /\ \A j \in (i+1)..Len(s) : s[j] # c
    ELSE 0

\* os.path.splitext(p)[0]: p up to its last dot, when that dot follows the
\* last separator and a character other than a dot stands between them
SplitExtRoot(p) ==
    LET dot == RFind(p, ".")
        sep == RFind(p, "/")
    IN  IF dot > sep /\ \E i \in (sep+1)..(dot-1) : p[i] # "."
        THEN SubSeq(p, 1, dot - 1)
        ELSE p

Digits == << "0","1","2","3","4","5","6","7","8","9" >>

RECURSIVE NatStr(_)
\* str(n) for n >= 0
NatStr(n) ==
    IF n < 10 THEN << Digits[n + 1] >>
    ELSE NatStr(n \div 10) \o << Digits[(n % 10) + 1] >>

\* str(n)
IntStr(n) == IF n < 0 THEN << "-" >> \o NatStr(-n) ELSE NatStr(n)

\* int(distance) for a distance given in tenths: truncation toward zero
IntOfTenths(d) == IF d >= 0 THEN d \div 10 ELSE -((-d) \div 10)

ExtZip     == << ".","z","i","p" >>
ExtShp     == << ".","s","h","p" >>
ExtShx     == << ".","s","h","x" >>
ExtDbf     == << ".","d","b","f" >>
ExtCpg     == << ".","c","p","g" >>
ExtPrj     == << ".","p","r","j" >>
ExtGeojson == << ".","g","e","o","j","s","o","n" >>
ExtJson    == << ".","j","s","o","n" >>


---------------------------------------------------------------------------
(* The spatial store *)

\* a table: the name of its geometry column, the SRID of that column, its
\* other columns, its rows, and how it came to be ("ext": it was in the
\* store before the service started)
Table(gcol, srid, cols, rows, via) ==
    [gcol |-> gcol, srid |-> srid, cols |-> cols, rows |-> rows, via |-> via]

\* one row: its geometry and its values of the other columns
Row(g, a) == [g |-> g, a |-> a]

\* DropIfExists with the DROP forgotten: the store as it was
DropNothing(store, name) == store

\* the store after DROP TABLE IF EXISTS name
DropIfExists(store, name) == [n \in DOMAIN store \ {name} |-> store[n]]

\* the store with table t under name (the name is free or replaced)
PutTable(store, name, t) ==
    [n \in DOMAIN store \cup {name} |-> IF n = name THEN t ELSE store[n]]

NameR   == << "r" >>
NameE   == << "e" >>
NamePQ  == << "p","_","q" >>
NameNone == << "z","z" >>

\* the tables the store holds when the service starts: r, two rows with an
\* id, and e, an empty table in a projected reference system; both name
\* their geometry column geom, as the export and buffer queries expect
InitialStore ==
    LET ids == [i \in 1..2 |-> Row(<< i >>, [c \in {"id"} |-> 10 + i])]
    IN  [n \in {NameR, NameE} |->
            IF n = NameR
            THEN Table("geom", WGS84, {"id"}, ids, "ext")
            ELSE Table("geom", WebMercator, {"id"}, << >>, "ext")]

\* the table names read requests ask for: the initial tables, the table an
\* upload creates, a derived table, and a name no table has
RequestNames ==
    { NameR, NameE, NamePQ, NameNone,
      << "r","_","b","u","f","f","e","r","_","5","m" >> }

\* the source tables buffer requests name
BufferSources == { NameR, NameE, NamePQ, NameNone }

---------------------------------------------------------------------------
(* Uploaded files *)

\* what gpd.read_file yields: the dataset's reference system, its property
\* names and its features
Dataset(crs, cols, rows) == [crs |-> crs, cols |-> cols, rows |-> rows]

\* the datasets uploads carry; index 0 stands for a file the reader rejects
Docs ==
    << Dataset(NoCrs, {"id", "name"},
               [i \in 1..(RowCap + Extra) |->
                   Row(<< 20 >>, [c \in {"id", "name"} |-> IF c = "id" THEN i ELSE i % 3])]),
       Dataset(WebMercator, {},
               [i \in 1..(RowCap + Extra) |-> Row(<< 30 + (i % 2) >>, << >>)]),
       Dataset(WGS84, {}, << >>) >>

DocIds == 0..Len(Docs)

\* an upload: the file name, the members of the archive (empty for a file
\* that is no archive) and the dataset the selected file parses to
Payload(filename, members, doc) ==
    [filename |-> filename, members |-> members, doc |-> doc]

FileNames ==
    { << >>,
      << "R" >> \o ExtJson,
      << "p","-","q" >> \o ExtGeojson,
      << "p"," ","q" >> \o ExtZip,
      << "r",".","Z","I","P" >>,
      << "r",".","S","H","P" >>,
      << "r",".","t","x","t" >> }

\* archives: with the shapefile's components, without a .shp member, and
\* with the .shp member inside a directory
Archives ==
    { { << "x" >> \o ExtShp, << "x" >> \o ExtDbf, << "x" >> \o ExtShx },
      { << "x" >> \o ExtDbf },
      { << "d","/","x" >> \o ExtShp } }

Payloads ==
    UNION { { Payload(f, m, d) :
                m \in (IF EndsWith(f, ExtZip) THEN Archives ELSE {{}}),
                d \in DocIds } : f \in FileNames }

\* the entry of the scratch directory a member of the archive is extracted
\* under: the member itself, or the directory it lies in
TopLevel(member) ==
    IF \E i \in 1..Len(member) : member[i] = "/"
    THEN SubSeq(member, 1,
                (CHOOSE i \in 1..Len(member) :
                    member[i] = "/" /\ \A j \in 1..(i-1) : member[j] # "/") - 1)
    ELSE member

\* os.listdir(tmp_dir) after extractall: the uploaded file and the entries
\* the archive was extracted to
ListDirAfterExtract(p) == {p.filename} \cup { TopLevel(m) : m \in p.members }

\* the table name upload_shapefile derives from the file name
TableNameOf(filename) ==
    StrReplace(StrReplace(StrLower(SplitExtRoot(filename)), " ", "_"), "-", "_")

\* NormalizeCrs without the to_crs branch: a dataset that carries a
\* reference system keeps it
NormalizeCrsKeep(gdf) == IF gdf.crs = NoCrs THEN [gdf EXCEPT !.crs = WGS84] ELSE gdf

\* gdf.set_crs(epsg=4326) when the dataset has no reference system,
\* gdf.to_crs(epsg=4326) otherwise: either way the result is tagged 4326
NormalizeCrs(gdf) == [gdf EXCEPT !.crs = WGS84]

\* ToPostgis with if_exists='append': the rows are added to a table of
\* that name
ToPostgisAppend(store, name, gdf) ==
    IF name \in DOMAIN store
    THEN [store EXCEPT ![name].rows = @ \o gdf.rows]
    ELSE [n \in DOMAIN store \cup {name} |->
            IF n = name
            THEN [gcol |-> "geometry", srid |-> gdf.crs, cols |-> gdf.cols,
                  rows |-> gdf.rows, via |-> "upload"]
            ELSE store[n]]

\* gdf.to_postgis(name, if_exists='replace', index=False): the table is
\* dropped and created anew from the dataset, under geopandas' geometry
\* column name
ToPostgis(store, name, gdf) ==
    PutTable(DropIfExists(store, name), name,
             Table("geometry", gdf.crs, gdf.cols, gdf.rows, "upload"))

\* what a handler's body ends with: a raised HTTPException (status > 0), any
\* other raised exception (status = -1), or a normal return (status = 0)
Raise(status, cause) == [raised |-> TRUE, status |-> status, cause |-> cause]
Return == [raised |-> FALSE, status |-> 0, cause |-> ""]

\* the body of upload_shapefile's try block up to the table write: the
\* exception it raises, if any
UploadBody(p) ==
    IF EndsWith(p.filename, ExtZip)
    THEN IF { f \in ListDirAfterExtract(p) : EndsWith(f, ExtShp) } = {}
         THEN Raise(400, "noshp")
         ELSE IF p.doc = 0 THEN Raise(-1, "parse") ELSE Return
    ELSE IF ~ \E e \in {ExtShp, ExtGeojson, ExtJson} :
                    EndsWith(StrLower(p.filename), e)
         THEN Raise(400, "unsupported")
         ELSE IF p.doc = 0 THEN Raise(-1, "parse") ELSE Return

\* `except Exception as e: raise HTTPException(status_code=500, ...)`:
\* HTTPException is an Exception, so whatever the body raised leaves as 500
ExceptToServerError(raised) == 500

---------------------------------------------------------------------------
(* Responses *)

NoResp ==
    [op |-> "none", status |-> 0, cause |-> "", arg |-> << >>,
     tname |-> << >>, doc |-> 0, dist |-> 0, existed |-> FALSE,
     headers |-> {}, data |-> << >>, layers |-> {}, members |-> {}]

Init ==
    /\ tables = InitialStore
    /\ open = 0
    /\ scratch = {}
    /\ outbox = << >>
    /\ resp = NoResp

\* POST /api/upload
Upload(p) ==
    /\ outbox = << >>
    /\ LET body == UploadBody(p)
           name == TableNameOf(p.filename)
           base == [NoResp EXCEPT !.op = "upload", !.arg = p.filename]
       IN  IF p.filename = << >>
           THEN /\ resp' = [base EXCEPT !.status = 400, !.cause = "nofile"]
                /\ tables' = tables
           ELSE IF body.raised
           THEN /\ resp' = [base EXCEPT !.status = ExceptToServerError(body),
                                        !.cause = body.cause]
                /\ tables' = tables
           ELSE /\ resp' = [base EXCEPT !.status = 200, !.tname = name,
                                        !.doc = p.doc,
                                        !.existed = name \in DOMAIN tables]
                /\ tables' = ToPostgis(tables, name, NormalizeCrs(Docs[p.doc]))
    /\ UNCHANGED <<open, scratch, outbox>>

---------------------------------------------------------------------------
(* Requests over an asyncpg connection *)

\* a finished request left its connection open
Leak ==
    /\ open < MaxLeaked
    /\ open' = open + 1

\* GET /api/test-db: the connection is closed only when the query returned
TestDb(connected, queryOk) ==
    /\ outbox = << >>
    /\ LET base == [NoResp EXCEPT !.op = "test"]
       IN  IF ~connected
           THEN /\ resp' = [base EXCEPT !.status = 500, !.cause = "connect"]
                /\ open' = open
           ELSE IF ~queryOk
           THEN /\ resp' = [base EXCEPT !.status = 500, !.cause = "query"]
                /\ Leak
           ELSE /\ resp' = [base EXCEPT !.status = 200]
                /\ open' = open
    /\ UNCHANGED <<tables, scratch, outbox>>

\* the rows of geometry_columns: a row per table with a geometry column
GeometryColumns(store) ==
    { [name |-> n, srid |-> store[n].srid] : n \in DOMAIN store }

\* GET /api/layers
GetAllLayers(connected, queryOk) ==
    /\ outbox = << >>
    /\ LET base == [NoResp EXCEPT !.op = "layers"]
       IN  IF ~connected
           THEN /\ resp' = [base EXCEPT !.status = 500, !.cause = "connect"]
                /\ open' = open
           ELSE IF ~queryOk
           THEN /\ resp' = [base EXCEPT !.status = 500, !.cause = "query"]
                /\ Leak
           ELSE /\ resp' = [base EXCEPT !.status = 200,
                                        !.layers = GeometryColumns(tables)]
                /\ open' = open
    /\ UNCHANGED <<tables, scratch, outbox>>

\* json_agg(ST_AsGeoJSON(t.*)): a Feature per row, its geometry and every
\* other column as its properties; COALESCE(..., '[]') for no rows
Features(t) ==
    [i \in 1..Len(t.rows) |->
        [geometry |-> t.rows[i].g, properties |-> t.rows[i].a]]

\* GET /api/layers/{table_name}/geojson: the query raises for a table that
\* does not exist, and nothing closes the connection then
GetLayerGeojson(connected, name) ==
    /\ outbox = << >>
    /\ LET base == [NoResp EXCEPT !.op = "geojson", !.arg = name]
       IN  IF ~connected
           THEN /\ resp' = [base EXCEPT !.status = 500, !.cause = "connect"]
                /\ open' = open
           ELSE IF name \notin DOMAIN tables
           THEN /\ resp' = [base EXCEPT !.status = 500, !.cause = "query"]
                /\ Leak
           ELSE /\ resp' = [base EXCEPT !.status = 200,
                                        !.data = Features(tables[name])]
                /\ open' = open
    /\ UNCHANGED <<tables, scratch, outbox>>

\* Limit with the LIMIT clause left out
LimitNone(rows, n) == rows

\* LIMIT n
Limit(rows, n) == SubSeq(rows, 1, IF Len(rows) < n THEN Len(rows) ELSE n)

\* SELECT * : every column of the row, the geometry column included
SelectAll(t, r) ==
    [c \in {t.gcol} \cup t.cols |-> IF c = t.gcol THEN r.g ELSE r.a[c]]

\* SELECT "c1", "c2", ... : the enumerated columns of the row
SelectColumns(names, r) == [c \in names |-> r.a[c]]

\* the data of get_layer_attributes: all columns when no column but the
\* geometry exists, the other columns otherwise, LIMIT 100 either way
AttributeRows(t) ==
    LET rows == Limit(t.rows, RowCap)
    IN  IF t.cols = {}
        THEN [i \in 1..Len(rows) |-> SelectAll(t, rows[i])]
        ELSE [i \in 1..Len(rows) |-> SelectColumns(t.cols, rows[i])]

\* GET /api/layers/{table_name}/attributes: the 404 is raised with the
\* connection open
GetLayerAttributes(connected, name) ==
    /\ outbox = << >>
    /\ LET base == [NoResp EXCEPT !.op = "attributes", !.arg = name]
       IN  IF ~connected
           THEN /\ resp' = [base EXCEPT !.status = 500, !.cause = "connect"]
                /\ open' = open
           ELSE IF name \notin DOMAIN tables
           THEN /\ resp' = [base EXCEPT !.status = 404, !.cause = "nogeom"]
                /\ Leak
           ELSE /\ resp' = [base EXCEPT !.status = 200,
                                        !.headers = tables[name].cols,
                                        !.data = AttributeRows(tables[name])]
                /\ open' = open
    /\ UNCHANGED <<tables, scratch, outbox>>

---------------------------------------------------------------------------
(* Export *)

\* gdf.to_file(..., driver='ESRI Shapefile'): the component files written
\* for the table
ShapefileComponents(name, t) ==
    { name \o e : e \in {ExtShp, ExtShx, ExtDbf, ExtCpg} }
        \cup (IF t.srid = NoCrs THEN {} ELSE { name \o ExtPrj })

\* f"{table_name}_export.zip"
ZipFileName(name) ==
    name \o << "_","e","x","p","o","r","t" >> \o ExtZip

\* the members written to the archive: the entries of the directory, listed
\* once the archive has been created in it, whose name starts with the
\* table name
ArchiveMembers(name, t) ==
    { f \in ShapefileComponents(name, t) \cup { ZipFileName(name) } :
        StartsWith(f, name) }

\* leaving `with tempfile.TemporaryDirectory()`: the directory and the
\* files in it are removed
TemporaryDirectoryExit(storage, files) == storage \ files

\* the body of export_shapefile's try block: the exception it raises
ExportBody(name) ==
    IF name \notin DOMAIN tables THEN Raise(-1, "read")
    ELSE IF tables[name].gcol # "geom" THEN Raise(-1, "read")
    ELSE IF tables[name].rows = << >> THEN Raise(404, "empty")
    ELSE Return

\* GET /api/export/{table_name}/shapefile: the handler, up to its return
ExportShapefile(name) ==
    /\ outbox = << >>
    /\ LET body == ExportBody(name)
           base == [NoResp EXCEPT !.op = "export", !.arg = name]
       IN  IF body.raised
           THEN /\ resp' = [base EXCEPT !.status = ExceptToServerError(body),
                                        !.cause = body.cause]
                /\ UNCHANGED <<scratch, outbox>>
           ELSE LET files == ShapefileComponents(name, tables[name])
                                \cup { ZipFileName(name) }
                IN  /\ resp' = [base EXCEPT !.cause = "returned"]
                    /\ outbox' = << [path |-> ZipFileName(name),
                                     members |-> ArchiveMembers(name, tables[name])] >>
                    /\ scratch' = TemporaryDirectoryExit(scratch \cup files, files)
    /\ UNCHANGED <<tables, open>>

\* the framework streams the FileResponse the handler returned: it fails
\* when the file is not there
SendFileResponse ==
    /\ outbox # << >>
    /\ resp' = IF outbox[1].path \in scratch
               THEN [resp EXCEPT !.op = "send", !.status = 200,
                                 !.members = outbox[1].members]
               ELSE [resp EXCEPT !.op = "send", !.status = 500,
                                 !.cause = "nofile"]
    /\ outbox' = << >>
    /\ UNCHANGED <<tables, open, scratch>>

---------------------------------------------------------------------------
(* Buffer analysis *)

\* the distances requests ask for, in tenths of a metre: 5.0 and 5.5
Distances == {50, 55}

\* f"{params.table_name}_buffer_{int(params.distance)}m"
NewTableName(name, d) ==
    name \o << "_","b","u","f","f","e","r","_" >> \o IntStr(IntOfTenths(d)) \o << "m" >>

\* whether CREATE TABLE new AS SELECT ST_Transform(ST_Buffer(
\* ST_Transform(geom, 3857), d), 4326) AS geom, id FROM source raises: the
\* source or one of the columns geom and id is missing, a row's geometry
\* has no SRID to transform from, or the new table exists
CreateRaises(store, new, source) ==
    \/ source \notin DOMAIN store
    \/ new \in DOMAIN store
    \/ /\ source \in DOMAIN store
       /\ \/ store[source].gcol # "geom"
          \/ "id" \notin store[source].cols
          \/ store[source].srid = NoCrs /\ store[source].rows # << >>

\* the table the CREATE TABLE ... AS SELECT makes
BufferTable(t, d) ==
    Table("geom", WGS84, {"id"},
          [i \in 1..Len(t.rows) |->
              Row(Append(t.rows[i].g, d), [c \in {"id"} |-> t.rows[i].a["id"]])],
          "buffer")

\* Rollback on a connection that commits each statement as it executes
RollbackNothing(before, uncommitted) == uncommitted

\* the store once the connection is closed with the transaction not
\* committed: the statements executed on it are rolled back
Rollback(before, uncommitted) == before

\* POST /api/analysis/buffer: DROP and CREATE on one connection, committed
\* after both
RunBufferAnalysis(name, d) ==
    /\ outbox = << >>
    /\ LET new == NewTableName(name, d)
           dropped == DropIfExists(tables, new)
           base == [NoResp EXCEPT !.op = "buffer", !.arg = name, !.dist = d,
                                  !.tname = new,
                                  !.existed = new \in DOMAIN tables]
       IN  IF CreateRaises(dropped, new, name)
           THEN /\ resp' = [base EXCEPT !.status = 500, !.cause = "create"]
                /\ tables' = Rollback(tables, dropped)
           ELSE /\ resp' = [base EXCEPT !.status = 200]
                /\ tables' = PutTable(dropped, new, BufferTable(dropped[name], d))
    /\ UNCHANGED <<open, scratch, outbox>>

---------------------------------------------------------------------------

Next ==
    \/ \E c \in BOOLEAN, q \in BOOLEAN : TestDb(c, q)
    \/ \E c \in BOOLEAN, q \in BOOLEAN : GetAllLayers(c, q)
    \/ \E c \in BOOLEAN, n \in RequestNames : GetLayerGeojson(c, n)
    \/ \E c \in BOOLEAN, n \in RequestNames : GetLayerAttributes(c, n)
    \/ \E p \in Payloads : Upload(p)
    \/ \E n \in RequestNames : ExportShapefile(n)
    \/ SendFileResponse
    \/ \E n \in BufferSources, d \in Distances : RunBufferAnalysis(n, d)

Spec == Init /\ [][Next]_vars


---------------------------------------------------------------------------
(* Properties *)

\* C1: an upload rejected for its input shape (an extension that is none of
\* .zip/.shp/.geojson/.json, or an archive without a .shp entry) is
\* answered with status 400 and leaves the tables of the store unchanged.
C1_ShapeRejectionIs400 ==
    [][ (resp'.op = "upload" /\ resp'.cause \in {"noshp", "unsupported"})
            => (resp'.status = 400 /\ tables' = tables) ]_vars

\* C2: an export whose result set has no rows is answered with status 404
\* and returns no archive.
C2_EmptyExportIs404 ==
    (resp.op = "export" /\ resp.cause = "empty")
        => (resp.status = 404 /\ outbox = << >>)

\* C3: no finished request holds a database connection open.
C3_NoConnectionLeftOpen == open = 0

\* the base name of a file name, lowercased, with spaces and hyphens
\* replaced by underscores
NormalizedBase(filename) ==
    LET B == SplitExtRoot(filename)
    IN  [i \in 1..Len(B) |->
            IF B[i] \in {" ", "-"} THEN "_" ELSE LowerChar(B[i])]

\* C4: after a successful upload of a dataset with N features under file
\* base name B, the GeoJSON of the table named normalize(B) has exactly
\* those N features with the same attribute values, whatever a table of that
\* name held before.
C4_UploadRoundTrip ==
    (resp.op = "upload" /\ resp.status = 200)
        => LET name == NormalizedBase(resp.arg)
               doc  == Docs[resp.doc]
           IN  /\ name \in DOMAIN tables
               /\ Len(Features(tables[name])) = Len(doc.rows)
               /\ \A i \in 1..Len(doc.rows) :
                      Features(tables[name])[i].properties = doc.rows[i].a

\* an upload replaced a table that existed, with a dataset of another schema
C4_Witness ==
    /\ resp.op = "upload" /\ resp.status = 200 /\ resp.existed
    /\ resp.arg = << "R" >> \o ExtJson
    /\ NameR \in DOMAIN tables
    /\ Len(tables[NameR].rows) = RowCap + Extra
    /\ tables[NameR].cols = {"id", "name"}
    /\ Len(Features(tables[NameR])) = RowCap + Extra

\* C5: a buffer analysis run again with the same source table and the same
\* distance, right after a run that succeeded, succeeds and leaves the
\* store as the first run left it: one derived table of that name, holding
\* the result of a single run.
C5_BufferIdempotent ==
    [][ (/\ resp.op = "buffer" /\ resp.status = 200
         /\ resp'.op = "buffer" /\ resp'.arg = resp.arg /\ resp'.dist = resp.dist)
            => (/\ resp'.status = 200
                /\ tables' = tables
                /\ resp'.tname \in DOMAIN tables'
                /\ Len(tables'[resp'.tname].rows) = Len(tables'[resp'.arg].rows)
                /\ \A i \in 1..Len(tables'[resp'.arg].rows) :
                       tables'[resp'.tname].rows[i].g
                           = Append(tables'[resp'.arg].rows[i].g, resp'.dist)) ]_vars

\* a buffer analysis succeeded over a derived table that existed, and the
\* table holds one buffered row per source row
C5_Witness ==
    /\ resp.op = "buffer" /\ resp.status = 200 /\ resp.existed
    /\ resp.arg = NameR
    /\ Len(tables[resp.tname].rows) = 2

\* C6: every table made by an upload or by buffer analysis has a geometry
\* column of SRID 4326.
C6_CreatedLayersAreWGS84 ==
    \A n \in DOMAIN tables :
        tables[n].via # "ext" => (tables[n].gcol # "" /\ tables[n].srid = 4326)

\* an upload without a reference system, an upload in another reference
\* system and a buffer of a table in another reference system have each
\* made a table
C6_Witness ==
    /\ resp.op = "upload" /\ resp.status = 200
    /\ Docs[resp.doc].crs = NoCrs
    /\ tables[resp.tname].via = "upload"
    /\ \E n \in DOMAIN tables :
          tables[n].via = "upload" /\ tables[n].rows = Docs[2].rows
    /\ NewTableName(NameE, 50) \in DOMAIN tables

\* C7: the attributes of a layer with no column but its geometry are
\* min(100, row count) rows, each with all the columns of the table; the
\* attributes operation never returns more than 100 rows.
C7_AttributeRowCap ==
    (resp.op = "attributes" /\ resp.status = 200)
        => LET t == tables[resp.arg]
           IN  /\ Len(resp.data) <= 100
               /\ t.cols = {} =>
                    /\ Len(resp.data) = (IF Len(t.rows) < 100 THEN Len(t.rows) ELSE 100)
                    /\ \A i \in 1..Len(resp.data) :
                           /\ DOMAIN resp.data[i] = {t.gcol}
                           /\ resp.data[i][t.gcol] = t.rows[i].g

\* the attributes of a table of more than 100 rows and no column but its
\* geometry were asked for
C7_Witness ==
    /\ resp.op = "attributes" /\ resp.status = 200
    /\ tables[resp.arg].cols = {}
    /\ Len(tables[resp.arg].rows) > 100
    /\ Len(resp.data) = 100
    /\ resp.headers = {}

\* C8: while an archive waits to be streamed, its file exists on scratch
\* storage.
C8_ArchiveExistsWhileStreamed ==
    outbox # << >> => outbox[1].path \in scratch

\* C9, as stated: a buffer analysis that fails at the create step is
\* answered with 500, a derived table of the destination name that existed
\* is absent afterwards, and every other table is unchanged.
C9_DropNotUndone ==
    [][ (resp'.op = "buffer" /\ resp'.cause = "create" /\ resp'.existed)
            => (/\ resp'.status = 500
                /\ resp'.tname \notin DOMAIN tables'
                /\ \A n \in DOMAIN tables \ {resp'.tname} :
                       n \in DOMAIN tables' /\ tables'[n] = tables[n]) ]_vars

\* C9, amended: a buffer analysis that fails at the create step is answered
\* with 500 and leaves every table unchanged, a derived table of the
\* destination name included: the drop is rolled back with the transaction.
C9_FailedBufferKeepsStore ==
    [][ (resp'.op = "buffer" /\ resp'.cause = "create")
            => (resp'.status = 500 /\ tables' = tables) ]_vars

\* a buffer analysis failed at the create step with a derived table of
\* the destination name in the store
C9_Witness ==
    /\ resp.op = "buffer" /\ resp.status = 500 /\ resp.cause = "create"
    /\ resp.existed
    /\ resp.arg = NameR
    /\ resp.tname \in DOMAIN tables
    /\ tables[resp.tname].via = "buffer"

\* C10: the members of the archive an export returns are the shapefile
\* component files of the table, and the archive is not a member of itself.
C10_ArchiveHoldsComponentsOnly ==
    outbox # << >>
        => /\ outbox[1].path \notin outbox[1].members
           /\ \A m \in outbox[1].members :
                  \E e \in {ExtShp, ExtShx, ExtDbf, ExtCpg, ExtPrj} : m = resp.arg \o e

===========================================================================
